---- MODULE Spec2Model ----
(***************************************************************************)
(* Model of the UpscaleIMG n8n node: UpscaleImg.execute                    *)
(* (nodes/UpscaleImg/UpscaleImg.node.ts).  One run of execute walks the    *)
(* input items in order; for each item it resolves the node parameters,    *)
(* reads the binary attachment, builds a multipart form, POSTs it to the   *)
(* upscale endpoint, GETs the result from the signed URL, packages the     *)
(* bytes and pushes one entry to returnData.  The host (n8n) is modelled   *)
(* by the variables items, params, host, credentials and continueOnFail,   *)
(* which are fixed for the run.                                            *)
(*                                                                         *)
(* Encoding of JavaScript values:                                          *)
(*   - an optional value is <<>> (undefined) or <<v>> (defined);           *)
(*   - file names and file extensions are sequences of one-character       *)
(*     strings, so that the regular expression of line 257 can be          *)
(*     computed; all other strings are TLA+ strings;                       *)
(*   - item indices are zero-based as in the code; items[i + 1] is the     *)
(*     code's items[i].                                                    *)
(***************************************************************************)
EXTENDS Integers, Sequences, FiniteSets, TLC

VARIABLES
    items,           \* this.getInputData(): the input items
    params,          \* what getNodeParameter(name, i) resolves to, per item
    host,            \* per item: which host call throws, and the upstream answers
    credentials,     \* this.getCredentials('upscaleImgApi')
    continueOnFail,  \* this.continueOnFail()
    i,               \* the for loop's index
    pc,              \* position of execute
    scope,           \* the block-scoped constants of the try body
    error,           \* the catch clause's binding
    returnData,      \* the accumulating output list
    calls,           \* the requests handed to helpers.httpRequest, in order
    steps,           \* history: the steps performed, in order, with their item
    returned,        \* <<>> or <<value returned by execute>>
    thrown           \* <<>> or <<error execute rejected with>>

inputs == <<items, params, host, credentials, continueOnFail>>
vars == <<items, params, host, credentials, continueOnFail, i, pc, scope, error,
          returnData, calls, steps, returned, thrown>>

-----------------------------------------------------------------------------
(* Bounds *)

MaxItems == 3

\* items of a run in the runs over several API keys
MaxKeyItems == 2

-----------------------------------------------------------------------------
(* JavaScript helpers *)

Undefined == <<>>

Some(v) == <<v>>

\* a || d for an optional string: undefined and "" are falsy
OrDefault(opt, d) == IF opt = Undefined THEN d ELSE IF opt[1] = "" THEN d ELSE opt[1]

\* a || d for an optional file name (a sequence of characters)
OrDefaultName(opt, d) == IF opt = Undefined THEN d ELSE IF opt[1] = <<>> THEN d ELSE opt[1]

Digit(d) ==
    CASE d = 0 -> "0" [] d = 1 -> "1" [] d = 2 -> "2" [] d = 3 -> "3" [] d = 4 -> "4"
      [] d = 5 -> "5" [] d = 6 -> "6" [] d = 7 -> "7" [] d = 8 -> "8" [] d = 9 -> "9"

RECURSIVE NatToString(_)
NatToString(n) == IF n < 10 THEN Digit(n) ELSE NatToString(n \div 10) \o Digit(n % 10)

\* String(n) for an integer n
String(n) == IF n < 0 THEN "-" \o NatToString(0 - n) ELSE NatToString(n)

SetMax(S) == CHOOSE m \in S : \A k \in S : k <= m

SetMinimum(S) == CHOOSE m \in S : \A k \in S : m <= k

\* mutant: the name is cut at its first dot, not at its last
StripExtensionFirstDot(name) ==
    LET dots == {k \in 1..Len(name) : name[k] = "."}
    IN  IF dots = {} THEN name
        ELSE IF SetMax(dots) = Len(name) THEN name
        ELSE SubSeq(name, 1, SetMinimum(dots) - 1)

\* fileName.replace(/\.[^.]+$/, ''): drop the last dot and what follows it,
\* when at least one character follows it
StripExtension(name) ==
    LET dots == {k \in 1..Len(name) : name[k] = "."}
    IN  IF dots = {} THEN name
        ELSE IF SetMax(dots) = Len(name) THEN name
        ELSE SubSeq(name, 1, SetMax(dots) - 1)

DefaultFileName == <<"i", "m", "a", "g", "e", ".", "p", "n", "g">>

DefaultMimeType == "image/png"

DefaultOutputBinaryPropertyName == "data"

UpscaleSuffix == <<"_", "u", "p", "s", "c", "a", "l", "e", "d", ".">>

UpscaleUrl == "https://upscaleimg.app/api/v1/upscale"

-----------------------------------------------------------------------------
(* Request and response shaping *)

ImagePart(binaryBuffer, fileName, mimeType) ==
    [name |-> "image", value |-> binaryBuffer, filename |-> fileName, contentType |-> mimeType]

Field(name, value) == [name |-> name, value |-> value]

\* mutant: the scale field is appended whatever the mode
ResizeFieldsAlwaysScale(resizeMode, p) ==
    << Field("scale", String(p.scale)) >>
        \o IF resizeMode = "scale" THEN << >>
           ELSE << Field("customWidth", String(p.customWidth)),
                   Field("customHeight", String(p.customHeight)),
                   Field("objectFit", p.objectFit) >>

\* lines 199-209: the resize fields of the form
ResizeFields(resizeMode, p) ==
    IF resizeMode = "scale"
    THEN << Field("scale", String(p.scale)) >>
    ELSE << Field("customWidth", String(p.customWidth)),
            Field("customHeight", String(p.customHeight)),
            Field("objectFit", p.objectFit) >>

\* lines 211-213
OutputFormatField(options) ==
    IF options.outputFormat # Undefined /\ options.outputFormat # Some("")
    THEN << Field("outputFormat", options.outputFormat[1]) >>
    ELSE << >>

\* mutant: the field is appended only when the option is truthy
RemoveMetadataFieldTruthy(options) ==
    IF options.removeMetadata # Undefined /\ options.removeMetadata # Some(FALSE)
    THEN << Field("removeMetadata", IF options.removeMetadata[1] THEN "1" ELSE "0") >>
    ELSE << >>

\* lines 214-216
RemoveMetadataField(options) ==
    IF options.removeMetadata # Undefined
    THEN << Field("removeMetadata", IF options.removeMetadata[1] THEN "1" ELSE "0") >>
    ELSE << >>

\* lines 196-216: the multipart form, as the sequence of its parts
BuildFormData(binaryBuffer, fileName, mimeType, resizeMode, p, options) ==
    << ImagePart(binaryBuffer, fileName, mimeType) >>
        \o ResizeFields(resizeMode, p)
        \o OutputFormatField(options)
        \o RemoveMetadataField(options)

\* lines 218-225
RequestOptions(apiKey, form) ==
    [method  |-> "POST",
     url     |-> UpscaleUrl,
     headers |-> [Authorization |-> "Bearer " \o apiKey],
     body    |-> form]

\* mutant: the download goes to the upscale endpoint, not to result.url
DownloadOptionsFixedUrl(resp) ==
    [method |-> "GET", url |-> UpscaleUrl, encoding |-> "arraybuffer"]

\* mutant: the download reuses the upload's Authorization header
DownloadOptionsAuthorized(resp) ==
    [method |-> "GET", url |-> resp.result.url, encoding |-> "arraybuffer",
     headers |-> [Authorization |-> "Bearer " \o credentials.apiKey]]

\* lines 246-250
DownloadOptions(resp) ==
    [method |-> "GET", url |-> resp.result.url, encoding |-> "arraybuffer"]

\* line 255-256
OutputBinaryPropertyName(options) ==
    OrDefault(options.outputBinaryPropertyName, DefaultOutputBinaryPropertyName)

\* lines 257-258
OutputFileName(fileName, resp) ==
    StripExtension(fileName) \o UpscaleSuffix \o resp.result.fileExt

\* helpers.prepareBinaryData(buffer, fileName, mimeType)
PrepareBinaryData(buffer, fileName, mimeType) ==
    [data |-> buffer, fileName |-> fileName, mimeType |-> mimeType]

\* mutant: every success entry is paired with the first input item
SuccessEntryFirstItem(resp, outputBinaryPropertyName, binaryOutput, idx) ==
    [json |-> [original |-> resp.original,
               result   |-> [size     |-> resp.result.size,
                             width    |-> resp.result.width,
                             height   |-> resp.result.height,
                             mimeType |-> resp.result.mimeType,
                             fileExt  |-> resp.result.fileExt]],
     binary |-> [k \in {outputBinaryPropertyName} |-> binaryOutput],
     pairedItem |-> [item |-> 0]]

\* mutant: the upstream result is passed through whole, url included
SuccessEntryWholeResult(resp, outputBinaryPropertyName, binaryOutput, idx) ==
    [json |-> [original |-> resp.original, result |-> resp.result],
     binary |-> [k \in {outputBinaryPropertyName} |-> binaryOutput],
     pairedItem |-> [item |-> idx]]

\* mutant: the attachment is stored under the default key as well
SuccessEntryKeepsData(resp, outputBinaryPropertyName, binaryOutput, idx) ==
    [json |-> [original |-> resp.original,
               result   |-> [size     |-> resp.result.size,
                             width    |-> resp.result.width,
                             height   |-> resp.result.height,
                             mimeType |-> resp.result.mimeType,
                             fileExt  |-> resp.result.fileExt]],
     binary |-> [k \in {outputBinaryPropertyName, DefaultOutputBinaryPropertyName}
                     |-> binaryOutput],
     pairedItem |-> [item |-> idx]]

\* lines 266-281: the entry pushed for a successful item
SuccessEntry(resp, outputBinaryPropertyName, binaryOutput, idx) ==
    [json |-> [original |-> resp.original,
               result   |-> [size     |-> resp.result.size,
                             width    |-> resp.result.width,
                             height   |-> resp.result.height,
                             mimeType |-> resp.result.mimeType,
                             fileExt  |-> resp.result.fileExt]],
     binary |-> [k \in {outputBinaryPropertyName} |-> binaryOutput],
     pairedItem |-> [item |-> idx]]

\* mutant: the entry carries the error's name instead of its message
ErrorEntryName(message, idx) ==
    [json |-> [error |-> "Error"], pairedItem |-> [item |-> idx]]

\* lines 284-289: the entry pushed for a failed item under continueOnFail
ErrorEntry(message, idx) ==
    [json |-> [error |-> message], pairedItem |-> [item |-> idx]]

\* mutant: the error carries a one-based item index
NodeOperationErrorOneBased(message, idx) ==
    [name |-> "NodeOperationError", message |-> message, itemIndex |-> idx + 1]

\* lines 292-294: new NodeOperationError(node, error, {itemIndex: i})
NodeOperationError(message, idx) ==
    [name |-> "NodeOperationError", message |-> message, itemIndex |-> idx]

-----------------------------------------------------------------------------
(* The host: input items, node parameters, upstream answers *)

\* the steps of one item's processing at which a host call can throw
FailPoints ==
    {"none", "params", "binary", "credentials", "form", "upload", "download", "package"}

\* the message of the error the host throws at a step
HostErrorMessage(step) ==
    CASE step = "params"      -> "Could not get parameter"
      [] step = "binary"      -> "No binary data found"
      [] step = "credentials" -> "Credentials could not be found"
      [] step = "form"        -> "Could not get parameter of the resize mode"
      [] step = "upload"      -> "API request failed"
      [] step = "download"    -> "Download request failed"
      [] step = "package"     -> "Could not prepare binary data"

ResponseA ==
    [original |-> [size |-> 8, width |-> 100, height |-> 100,
                   mimeType |-> "image/png", fileExt |-> <<"p", "n", "g">>],
     result   |-> [size |-> 32, width |-> 200, height |-> 200,
                   mimeType |-> "image/webp", fileExt |-> <<"w", "e", "b", "p">>,
                   url |-> "https://s3.example.com/upscaled.webp?signed=1"]]

ResponseB ==
    [original |-> [size |-> 9, width |-> 640, height |-> 480,
                   mimeType |-> "image/jpeg", fileExt |-> <<"j", "p", "g">>],
     result   |-> [size |-> 64, width |-> 1920, height |-> 1080,
                   mimeType |-> "image/jpeg", fileExt |-> <<"j", "p", "g">>,
                   url |-> "https://cdn.example.org/b.jpg?signed=2"]]

Responses == {ResponseA, ResponseB}

\* what the download of a signed URL returns
DownloadedImage(resp) == IF resp = ResponseA THEN "upscaled-bytes-A" ELSE "upscaled-bytes-B"

Attachment(bytes, fileName, mimeType) ==
    [data |-> bytes, fileName |-> fileName, mimeType |-> mimeType]

\* an input item whose binary holds one attachment under "data"
ItemWith(att) == [binary |-> [data |-> att]]

\* an input item without binary attachments
ItemWithout == [binary |-> << >>]

Options(outputFormat, removeMetadata, outputBinaryPropertyName) ==
    [outputFormat |-> outputFormat, removeMetadata |-> removeMetadata,
     outputBinaryPropertyName |-> outputBinaryPropertyName]

Params(resizeMode, scale, customWidth, customHeight, objectFit, options) ==
    [binaryPropertyName |-> "data", resizeMode |-> resizeMode, scale |-> scale,
     customWidth |-> customWidth, customHeight |-> customHeight,
     objectFit |-> objectFit, options |-> options]

Host(failAt, resp) == [failAt |-> failAt, response |-> resp]

Case(item, p, h) == [item |-> item, params |-> p, host |-> h]

PhotoPng == <<"p", "h", "o", "t", "o", ".", "p", "n", "g">>

MyPhotoJpg == <<"m", "y", ".", "p", "h", "o", "t", "o", ".", "j", "p", "g">>

NoExt == <<"s", "c", "a", "n">>

\* the two configurations of the batch runs: the node's defaults on a named
\* PNG, and custom dimensions with every option set on an unnamed attachment
FlowCase(failAt, variant) ==
    IF variant = "A"
    THEN Case(IF failAt = "binary" THEN ItemWithout
              ELSE ItemWith(Attachment("png-bytes", Some(PhotoPng), Some("image/png"))),
              Params("scale", 2, 1920, 1080, "cover",
                     Options(Undefined, Undefined, Undefined)),
              Host(IF failAt = "binary" THEN "none" ELSE failAt, ResponseA))
    ELSE Case(IF failAt = "binary" THEN ItemWithout
              ELSE ItemWith(Attachment("raw-bytes", Undefined, Undefined)),
              Params("customDimensions", 2, 800, 600, "contain",
                     Options(Some("jpg"), Some(TRUE), Some("upscaled"))),
              Host(IF failAt = "binary" THEN "none" ELSE failAt, ResponseB))

FlowCases ==
    {FlowCase(f, "A") : f \in FailPoints} \cup {FlowCase(f, "B") : f \in {"none", "upload"}}

ResizeModes == {"scale", "customDimensions"}

\* the schema offers 2 and 4; an expression can resolve to any number
Scales == {2, 3, 4}

Widths == {1920, 800}

Heights == {1080}

ObjectFits == {"cover", "contain", "fill"}

OutputFormats == {Undefined, Some("webp")}

RemoveMetadatas == {Undefined, Some(TRUE), Some(FALSE)}

OutputBinaryPropertyNames == {Undefined, Some("upscaled")}

FileNames == {Undefined, Some(PhotoPng), Some(MyPhotoJpg), Some(NoExt)}

MimeTypes == {Undefined, Some("image/jpeg")}

\* single-item runs over every configuration of the form
FormCases ==
    {Case(ItemWith(Attachment("png-bytes", fn, mt)),
          Params(rm, sc, w, h, fit, Options(of, md, ob)),
          Host(f, IF rm = "scale" THEN ResponseA ELSE ResponseB)) :
        fn \in FileNames, mt \in MimeTypes, rm \in ResizeModes, sc \in Scales,
        w \in Widths, h \in Heights, fit \in ObjectFits, of \in OutputFormats,
        md \in RemoveMetadatas, ob \in OutputBinaryPropertyNames,
        f \in {"none", "upload"}}

ApiKeys == {"test-api-key-123"}

-----------------------------------------------------------------------------
(* execute *)

NoScope ==
    [binaryPropertyName |-> Undefined, resizeMode |-> Undefined, options |-> Undefined,
     binaryBuffer |-> Undefined, fileName |-> Undefined, mimeType |-> Undefined,
     apiKey |-> Undefined, form |-> Undefined, response |-> Undefined,
     imageBuffer |-> Undefined, outputBinaryPropertyName |-> Undefined,
     binaryOutput |-> Undefined]

\* the state at the entry of execute, for a run over the given cases
Start(cases, key, cof) ==
    /\ items = [k \in 1..Len(cases) |-> cases[k].item]
    /\ params = [k \in 1..Len(cases) |-> cases[k].params]
    /\ host = [k \in 1..Len(cases) |-> cases[k].host]
    /\ credentials = [apiKey |-> key]
    /\ continueOnFail = cof
    /\ i = 0
    /\ pc = "loop"
    /\ scope = NoScope
    /\ error = Undefined
    /\ returnData = << >>
    /\ calls = << >>
    /\ steps = << >>
    /\ returned = Undefined
    /\ thrown = Undefined

Init ==
    \E n \in 0..MaxItems : \E cases \in [1..n -> FlowCases] :
        \E key \in ApiKeys : \E cof \in BOOLEAN : Start(cases, key, cof)

InitForm ==
    \E c \in FormCases : \E key \in ApiKeys : \E cof \in BOOLEAN : Start(<<c>>, key, cof)

KeyApiKeys == ApiKeys \cup {"other-api-key-456"}

\* batches of up to MaxKeyItems items under either API key
InitKeys ==
    \E n \in 0..MaxKeyItems : \E cases \in [1..n -> FlowCases] :
        \E key \in KeyApiKeys : \E cof \in BOOLEAN : Start(cases, key, cof)

TrailingDot == <<"s", "c", "a", "n", ".">>

DotFile == <<".", "p", "n", "g">>

\* file names of an attachment: absent, empty, with one or several dots, with
\* none, ending in a dot, starting with the only dot
NameFileNames == FileNames \cup {Some(<< >>), Some(TrailingDot), Some(DotFile)}

NameMimeTypes == MimeTypes \cup {Some("")}

NameOutputBinaryPropertyNames == OutputBinaryPropertyNames \cup {Some(""), Some("data")}

\* single-item runs over the namings of the input attachment and of the output
NameCases ==
    {Case(ItemWith(Attachment("png-bytes", fn, mt)),
          Params("scale", 2, 1920, 1080, "cover", Options(Undefined, Undefined, ob)),
          Host(f, resp)) :
        fn \in NameFileNames, mt \in NameMimeTypes, ob \in NameOutputBinaryPropertyNames,
        resp \in Responses, f \in {"none", "upload", "download", "package"}}

InitNames ==
    \E c \in NameCases : \E key \in ApiKeys : \E cof \in BOOLEAN : Start(<<c>>, key, cof)

Step(name) == [item |-> i, step |-> name]

\* a host call of the try body throws: control passes to the catch clause
Throw(message) ==
    /\ error' = Some(message)
    /\ pc' = "catch"
    /\ UNCHANGED scope

\* line 181: the loop condition
ForLoop ==
    /\ pc = "loop"
    /\ pc' = IF i < Len(items) THEN "params" ELSE "return"
    /\ scope' = NoScope
    /\ error' = Undefined
    /\ UNCHANGED <<inputs, i, returnData, calls, steps, returned, thrown>>

\* lines 183-185
GetParameters ==
    /\ pc = "params"
    /\ steps' = Append(steps, Step("params"))
    /\ IF host[i + 1].failAt = "params"
       THEN Throw(HostErrorMessage("params"))
       ELSE /\ scope' = [scope EXCEPT
                  !.binaryPropertyName = params[i + 1].binaryPropertyName,
                  !.resizeMode = params[i + 1].resizeMode,
                  !.options = params[i + 1].options]
            /\ pc' = "binary"
            /\ UNCHANGED error
    /\ UNCHANGED <<inputs, i, returnData, calls, returned, thrown>>

\* mutant: a missing attachment is not an error; an empty buffer is uploaded
AssertBinaryDataLenient ==
    /\ pc = "binary"
    /\ steps' = Append(steps, Step("binary"))
    /\ LET present == scope.binaryPropertyName \in DOMAIN items[i + 1].binary
           binaryData == IF present THEN items[i + 1].binary[scope.binaryPropertyName]
                         ELSE Attachment("", Undefined, Undefined)
       IN  /\ scope' = [scope EXCEPT
                 !.binaryBuffer = binaryData.data,
                 !.fileName = OrDefaultName(binaryData.fileName, DefaultFileName),
                 !.mimeType = OrDefault(binaryData.mimeType, DefaultMimeType)]
           /\ pc' = "credentials"
           /\ UNCHANGED error
    /\ UNCHANGED <<inputs, i, returnData, calls, returned, thrown>>

\* mutant: an attachment without file name gets both defaults
AssertBinaryDataCoupledDefaults ==
    /\ pc = "binary"
    /\ steps' = Append(steps, Step("binary"))
    /\ IF scope.binaryPropertyName \notin DOMAIN items[i + 1].binary
       THEN Throw(HostErrorMessage("binary"))
       ELSE LET binaryData == items[i + 1].binary[scope.binaryPropertyName]
                named == binaryData.fileName # Undefined /\ binaryData.fileName # Some(<< >>)
            IN  /\ scope' = [scope EXCEPT
                      !.binaryBuffer = binaryData.data,
                      !.fileName = IF named THEN binaryData.fileName[1] ELSE DefaultFileName,
                      !.mimeType = IF named
                                   THEN OrDefault(binaryData.mimeType, DefaultMimeType)
                                   ELSE DefaultMimeType]
                /\ pc' = "credentials"
                /\ UNCHANGED error
    /\ UNCHANGED <<inputs, i, returnData, calls, returned, thrown>>

\* lines 187-191
AssertBinaryData ==
    /\ pc = "binary"
    /\ steps' = Append(steps, Step("binary"))
    /\ IF scope.binaryPropertyName \notin DOMAIN items[i + 1].binary
       THEN Throw(HostErrorMessage("binary"))
       ELSE LET binaryData == items[i + 1].binary[scope.binaryPropertyName]
            IN  /\ scope' = [scope EXCEPT
                      !.binaryBuffer = binaryData.data,
                      !.fileName = OrDefaultName(binaryData.fileName, DefaultFileName),
                      !.mimeType = OrDefault(binaryData.mimeType, DefaultMimeType)]
                /\ pc' = "credentials"
                /\ UNCHANGED error
    /\ UNCHANGED <<inputs, i, returnData, calls, returned, thrown>>

\* lines 193-194
GetCredentials ==
    /\ pc = "credentials"
    /\ steps' = Append(steps, Step("credentials"))
    /\ IF host[i + 1].failAt = "credentials"
       THEN Throw(HostErrorMessage("credentials"))
       ELSE /\ scope' = [scope EXCEPT !.apiKey = credentials.apiKey]
            /\ pc' = "upload"
            /\ UNCHANGED error
    /\ UNCHANGED <<inputs, i, returnData, calls, returned, thrown>>

\* lines 196-227: build the form and POST it to the upscale endpoint
Upload ==
    /\ pc = "upload"
    /\ IF host[i + 1].failAt = "form"
       THEN /\ steps' = Append(steps, Step("form"))
            /\ Throw(HostErrorMessage("form"))
            /\ UNCHANGED calls
       ELSE LET form == BuildFormData(scope.binaryBuffer, scope.fileName, scope.mimeType,
                                      scope.resizeMode, params[i + 1], scope.options)
            IN  /\ steps' = steps \o <<Step("form"), Step("upload")>>
                /\ calls' = Append(calls, [item |-> i,
                                           request |-> RequestOptions(scope.apiKey, form)])
                /\ IF host[i + 1].failAt = "upload"
                   THEN Throw(HostErrorMessage("upload"))
                   ELSE /\ scope' = [scope EXCEPT !.form = form,
                                                  !.response = host[i + 1].response]
                        /\ pc' = "download"
                        /\ UNCHANGED error
    /\ UNCHANGED <<inputs, i, returnData, returned, thrown>>

\* lines 246-253: GET the upscaled image from the signed URL
Download ==
    /\ pc = "download"
    /\ steps' = Append(steps, Step("download"))
    /\ calls' = Append(calls, [item |-> i, request |-> DownloadOptions(scope.response)])
    /\ IF host[i + 1].failAt = "download"
       THEN Throw(HostErrorMessage("download"))
       ELSE /\ scope' = [scope EXCEPT !.imageBuffer = DownloadedImage(scope.response)]
            /\ pc' = "package"
            /\ UNCHANGED error
    /\ UNCHANGED <<inputs, i, returnData, returned, thrown>>

\* lines 255-264
Package ==
    /\ pc = "package"
    /\ steps' = Append(steps, Step("package"))
    /\ IF host[i + 1].failAt = "package"
       THEN Throw(HostErrorMessage("package"))
       ELSE /\ scope' = [scope EXCEPT
                  !.outputBinaryPropertyName = OutputBinaryPropertyName(scope.options),
                  !.binaryOutput =
                      PrepareBinaryData(scope.imageBuffer,
                                        OutputFileName(scope.fileName, scope.response),
                                        scope.response.result.mimeType)]
            /\ pc' = "push"
            /\ UNCHANGED error
    /\ UNCHANGED <<inputs, i, returnData, calls, returned, thrown>>

\* lines 266-281, and the loop's i++
Push ==
    /\ pc = "push"
    /\ steps' = Append(steps, Step("push"))
    /\ returnData' = Append(returnData,
                            SuccessEntry(scope.response, scope.outputBinaryPropertyName,
                                         scope.binaryOutput, i))
    /\ i' = i + 1
    /\ pc' = "loop"
    /\ UNCHANGED <<inputs, scope, error, calls, returned, thrown>>

\* mutant: the catch clause advances the index itself before the continue
CatchContinueSkips ==
    /\ pc = "catch"
    /\ continueOnFail
    /\ steps' = Append(steps, Step("pushError"))
    /\ returnData' = Append(returnData, ErrorEntry(error[1], i))
    /\ i' = i + 2
    /\ pc' = "loop"
    /\ UNCHANGED <<inputs, scope, error, calls, returned, thrown>>

\* lines 282-291: the catch clause when continueOnFail() is true
CatchContinue ==
    /\ pc = "catch"
    /\ continueOnFail
    /\ steps' = Append(steps, Step("pushError"))
    /\ returnData' = Append(returnData, ErrorEntry(error[1], i))
    /\ i' = i + 1
    /\ pc' = "loop"
    /\ UNCHANGED <<inputs, scope, error, calls, returned, thrown>>

\* lines 282-283, 292-294: the catch clause when continueOnFail() is false
CatchThrow ==
    /\ pc = "catch"
    /\ ~continueOnFail
    /\ steps' = Append(steps, Step("throw"))
    /\ thrown' = Some(NodeOperationError(error[1], i))
    /\ pc' = "aborted"
    /\ UNCHANGED <<inputs, i, scope, error, returnData, calls, returned>>

\* line 298
Return ==
    /\ pc = "return"
    /\ returned' = Some(<<returnData>>)
    /\ pc' = "returned"
    /\ UNCHANGED <<inputs, i, scope, error, returnData, calls, steps, thrown>>

Next ==
    \/ ForLoop
    \/ GetParameters
    \/ AssertBinaryData
    \/ GetCredentials
    \/ Upload
    \/ Download
    \/ Package
    \/ Push
    \/ CatchContinue
    \/ CatchThrow
    \/ Return

\* batches of up to MaxItems items, each item failing at any step or at none
Spec == Init /\ [][Next]_vars

\* single-item runs over every configuration of the upload form
SpecForm == InitForm /\ [][Next]_vars


\* single-item runs over every naming of the input attachment and of the output
SpecNames == InitNames /\ [][Next]_vars


\* batches of up to MaxKeyItems items, run under either of two API keys
SpecKeys == InitKeys /\ [][Next]_vars

-----------------------------------------------------------------------------
(* What the run's inputs say about each item (k is the item's position,      *)
(* 1..Len(items); its zero-based index is k - 1)                             *)

BinaryMissing(k) == params[k].binaryPropertyName \notin DOMAIN items[k].binary

\* the step at which the processing of item k throws, "none" when it succeeds
FailingStep(k) ==
    IF host[k].failAt = "params" THEN "params"
    ELSE IF BinaryMissing(k) THEN "binary"
    ELSE host[k].failAt

Fails(k) == FailingStep(k) # "none"

Failing == {k \in 1..Len(items) : Fails(k)}

SetMin(S) == CHOOSE m \in S : \A k \in S : m <= k

Range(seq) == {seq[q] : q \in 1..Len(seq)}

\* the calls made for the item of index idx, in order
CallsOf(idx) == LET OfItem(c) == c.item = idx IN SelectSeq(calls, OfItem)

\* the steps performed for the item of index idx, in order
StepsOf(idx) == LET OfItem(s) == s.item = idx IN SelectSeq(steps, OfItem)

IsSuccessEntry(e) == "binary" \in DOMAIN e

IsErrorEntry(e) == "error" \in DOMAIN e.json

-----------------------------------------------------------------------------
(* C1: a run of execute that returns hands back one list with exactly one    *)
(* entry per input item, and the k-th entry (from 0) has pairedItem.item = k *)
(* -- for every mix of failing and succeeding items, and for no items.       *)
OneEntryPerItemInOrder ==
    pc = "returned" =>
        /\ Len(returned[1]) = 1
        /\ Len(returned[1][1]) = Len(items)
        /\ \A k \in 1..Len(items) : returned[1][1][k].pairedItem.item = k - 1

\* a returned run of three items in which a failed item lies between two
\* successful ones
OneEntryPerItemWitness ==
    /\ pc = "returned"
    /\ Len(items) = 3
    /\ IsSuccessEntry(returned[1][1][1])
    /\ IsErrorEntry(returned[1][1][2])
    /\ IsSuccessEntry(returned[1][1][3])

-----------------------------------------------------------------------------
(* C2: under continueOnFail every error of item i, at whichever step, becomes*)
(* exactly one entry {json: {error: message}, pairedItem: {item: i}} without *)
(* binary at position i; the entries of the other items are what those items *)
(* produce on their own, and the run goes on to the items after i.           *)
ExpectedSuccess(k) ==
    LET resp == host[k].response
        att == items[k].binary[params[k].binaryPropertyName]
        opts == params[k].options
    IN  [json |-> [original |-> resp.original,
                   result   |-> [f \in {"size", "width", "height", "mimeType", "fileExt"}
                                     |-> resp.result[f]]],
         binary |-> [key \in {OutputBinaryPropertyName(opts)} |->
                        [data |-> DownloadedImage(resp),
                         fileName |-> OutputFileName(OrDefaultName(att.fileName,
                                                                   DefaultFileName), resp),
                         mimeType |-> resp.result.mimeType]],
         pairedItem |-> [item |-> k - 1]]

ExpectedError(k) ==
    [json |-> [error |-> HostErrorMessage(FailingStep(k))], pairedItem |-> [item |-> k - 1]]

\* C2: under continueOnFail, position k of returnData holds the error entry of
\* item k when item k fails and its own success entry otherwise; the run never aborts
ErrorsBecomeEntries ==
    continueOnFail =>
        /\ Len(returnData) <= Len(items)
        /\ \A k \in 1..Len(returnData) :
              returnData[k] = IF Fails(k) THEN ExpectedError(k) ELSE ExpectedSuccess(k)
        /\ thrown = Undefined
        /\ pc \notin {"aborted"}
        /\ pc = "returned" => Len(returnData) = Len(items)

\* a failed item followed by an item that succeeded
ErrorsBecomeEntriesWitness ==
    /\ continueOnFail
    /\ pc = "returned"
    /\ Len(items) = 3
    /\ IsSuccessEntry(returnData[1])
    /\ FailingStep(2) = "download"
    /\ returnData[2] = [json |-> [error |-> "Download request failed"],
                        pairedItem |-> [item |-> 1]]
    /\ IsSuccessEntry(returnData[3])

-----------------------------------------------------------------------------
(* C3: without continueOnFail the first failing item i aborts the run:       *)
(* execute rejects with an error carrying itemIndex i and the message of the *)
(* underlying error, nothing is returned, and no step and no upstream call   *)
(* of an item after i is performed.                                          *)
FirstFailureAborts ==
    (~continueOnFail /\ Failing # {}) =>
        LET f == SetMin(Failing) IN
        /\ returned = Undefined
        /\ pc # "returned"
        /\ \A q \in 1..Len(steps) : steps[q].item <= f - 1
        /\ \A q \in 1..Len(calls) : calls[q].item <= f - 1
        /\ thrown # Undefined =>
              /\ pc = "aborted"
              /\ thrown[1].itemIndex = f - 1
              /\ thrown[1].message = HostErrorMessage(FailingStep(f))
        /\ pc = "aborted" => thrown # Undefined

\* the second of three items fails: one entry was accumulated and is not
\* returned, and the third item is never touched
FirstFailureAbortsWitness ==
    /\ ~continueOnFail
    /\ pc = "aborted"
    /\ Len(items) = 3
    /\ thrown[1].itemIndex = 1
    /\ Len(returnData) = 1
    /\ returned = Undefined
    /\ ~Fails(3)

-----------------------------------------------------------------------------
(* C4: an item that was processed successfully caused exactly two upstream   *)
(* calls: first the POST to the upscale endpoint, then the GET, whose URL is *)
(* the result.url of that item's upload response; no GET is issued for an    *)
(* item before the POST of that item.                                        *)
UploadThenDownload ==
    /\ \A k \in 1..Len(returnData) :
          IsSuccessEntry(returnData[k]) =>
              LET cs == CallsOf(k - 1) IN
              /\ Len(cs) = 2
              /\ cs[1].request.method = "POST"
              /\ cs[1].request.url = "https://upscaleimg.app/api/v1/upscale"
              /\ cs[2].request.method = "GET"
              /\ cs[2].request.url = host[k].response.result.url
    /\ \A q \in 1..Len(calls) :
          calls[q].request.method = "GET" =>
              \E p \in 1..(q - 1) :
                  /\ calls[p].item = calls[q].item
                  /\ calls[p].request.method = "POST"
                  /\ calls[q].request.url = host[calls[q].item + 1].response.result.url

\* two successful items whose uploads named different URLs
UploadThenDownloadWitness ==
    /\ pc = "returned"
    /\ Len(returnData) >= 2
    /\ IsSuccessEntry(returnData[1])
    /\ IsSuccessEntry(returnData[2])
    /\ host[1].response.result.url # host[2].response.result.url
    /\ Len(calls) >= 4

-----------------------------------------------------------------------------
(* C5: items are processed one at a time in input order: the steps and the   *)
(* upstream calls of the run are ordered by item index, and before any step  *)
(* of item j every item i < j has had its entry (success or error) appended. *)
IsEnd(s) == s.step \in {"push", "pushError"}

\* C5: steps and calls are ordered by item index, and the entry of every
\* earlier item is appended before any step of a later item
OneItemAtATime ==
    /\ \A p, q \in 1..Len(steps) : p < q => steps[p].item <= steps[q].item
    /\ \A p, q \in 1..Len(calls) : p < q => calls[p].item <= calls[q].item
    /\ \A q \in 1..Len(steps) : \A idx \in 0..(steps[q].item - 1) :
          \E p \in 1..(q - 1) :
              /\ steps[p].item = idx
              /\ IsEnd(steps[p])
              /\ Len(SelectSeq(SubSeq(steps, 1, p), IsEnd)) = idx + 1
    /\ Len(returnData) = Len(SelectSeq(steps, IsEnd))

\* the third item is at its download after the first two were ended, one of
\* them by an error entry
OneItemAtATimeWitness ==
    /\ pc = "package"
    /\ i = 2
    /\ Len(returnData) = 2
    /\ IsErrorEntry(returnData[1])
    /\ IsSuccessEntry(returnData[2])
    /\ Len(calls) >= 4

-----------------------------------------------------------------------------
(* C6: nothing is retried and nothing of an item runs after one of its steps *)
(* failed: each step of an item is performed at most once, so at most one    *)
(* upload and one download per item; no upload or download for an item whose *)
(* binary attachment is missing; no download for an item whose upload failed.*)
StepRank(name) ==
    CASE name = "params" -> 1 [] name = "binary" -> 2 [] name = "credentials" -> 3
      [] name = "form" -> 4 [] name = "upload" -> 5 [] name = "download" -> 6
      [] name = "package" -> 7 [] name = "push" -> 8 [] name = "pushError" -> 9
      [] name = "throw" -> 9

Count(seq, method) ==
    LET Is(c) == c.request.method = method IN Len(SelectSeq(seq, Is))

\* C6: per item, every step at most once and none after the failing step; at
\* most one upload and one download, none where the claim excludes them
NoRetryNoStepAfterFailure ==
    \A k \in 1..Len(items) :
        LET cs == CallsOf(k - 1)
            ss == StepsOf(k - 1)
        IN  /\ Count(cs, "POST") <= 1
            /\ Count(cs, "GET") <= 1
            /\ \A p, q \in 1..Len(ss) : p < q => StepRank(ss[p].step) < StepRank(ss[q].step)
            /\ Fails(k) =>
                  \A q \in 1..Len(ss) :
                      \/ StepRank(ss[q].step) <= StepRank(FailingStep(k))
                      \/ ss[q].step \in {"pushError", "throw"}
            /\ BinaryMissing(k) => cs = << >>
            /\ FailingStep(k) = "upload" => Count(cs, "GET") = 0
            /\ FailingStep(k) \in {"params", "binary", "credentials", "form"} => cs = << >>

\* a finished run in which one item had no binary attachment and another
\* item's upload failed
NoRetryWitness ==
    /\ pc = "returned"
    /\ Len(items) = 3
    /\ BinaryMissing(1)
    /\ FailingStep(2) = "upload"
    /\ ~Fails(3)
    /\ Len(calls) = 3

-----------------------------------------------------------------------------
(* The upload forms of a run *)

IsUpload(c) == c.request.method = "POST"

\* the values of the form's fields of the given name, in order
FieldValues(form, name) ==
    LET Named(part) == part.name = name
        parts == SelectSeq(form, Named)
    IN  [q \in 1..Len(parts) |-> parts[q].value]

\* the decimal numerals of the configured numbers
Decimal(n) ==
    CASE n = 2 -> "2" [] n = 3 -> "3" [] n = 4 -> "4" [] n = 5 -> "5"
      [] n = 600 -> "600" [] n = 800 -> "800" [] n = 1080 -> "1080" [] n = 1920 -> "1920"

-----------------------------------------------------------------------------
(* C7: the resize fields of an upload form go by the mode: in scale mode the *)
(* form has a scale field holding the decimal string of the scale factor and *)
(* none of customWidth, customHeight, objectFit; in customDimensions mode it *)
(* has customWidth, customHeight (decimal strings) and objectFit and no      *)
(* scale; no form has scale together with a custom-dimension field.          *)
ResizeFieldsExclusive ==
    \A q \in 1..Len(calls) :
        IsUpload(calls[q]) =>
            LET form == calls[q].request.body
                p == params[calls[q].item + 1]
                scaleF == FieldValues(form, "scale")
                widthF == FieldValues(form, "customWidth")
                heightF == FieldValues(form, "customHeight")
                fitF == FieldValues(form, "objectFit")
            IN  /\ p.resizeMode = "scale" =>
                      /\ scaleF = << Decimal(p.scale) >>
                      /\ widthF = << >> /\ heightF = << >> /\ fitF = << >>
                /\ p.resizeMode = "customDimensions" =>
                      /\ widthF = << Decimal(p.customWidth) >>
                      /\ heightF = << Decimal(p.customHeight) >>
                      /\ fitF = << p.objectFit >>
                      /\ scaleF = << >>
                /\ ~(scaleF # << >> /\ (widthF # << >> \/ heightF # << >> \/ fitF # << >>))

\* an upload in customDimensions mode was issued
ResizeFieldsWitness ==
    /\ Len(calls) >= 1
    /\ IsUpload(calls[1])
    /\ params[1].resizeMode = "customDimensions"
    /\ params[1].customWidth = 800
    /\ FieldValues(calls[1].request.body, "customWidth") = << "800" >>
    /\ FieldValues(calls[1].request.body, "scale") = << >>

-----------------------------------------------------------------------------
(* C8: in scale mode no upload is issued whose scale field is anything but  *)
(* "2" or "4", whatever the parameter resolver returns for scale.            *)
OnlyScaleTwoOrFour ==
    \A q \in 1..Len(calls) :
        IsUpload(calls[q]) =>
            \A v \in Range(FieldValues(calls[q].request.body, "scale")) : v \in {"2", "4"}

-----------------------------------------------------------------------------
(* C9: options.removeMetadata = true gives the form a removeMetadata field   *)
(* "1", false gives "0", and unset gives no removeMetadata field, in either  *)
(* resize mode.                                                              *)
RemoveMetadataThreeCases ==
    \A q \in 1..Len(calls) :
        IsUpload(calls[q]) =>
            LET md == params[calls[q].item + 1].options.removeMetadata
                got == FieldValues(calls[q].request.body, "removeMetadata")
            IN  /\ md = <<TRUE>> => got = << "1" >>
                /\ md = <<FALSE>> => got = << "0" >>
                /\ md = << >> => got = << >>

\* removeMetadata = false was sent as "0" in customDimensions mode
RemoveMetadataWitness ==
    /\ Len(calls) >= 1
    /\ IsUpload(calls[1])
    /\ params[1].resizeMode = "customDimensions"
    /\ params[1].options.removeMetadata = <<FALSE>>
    /\ FieldValues(calls[1].request.body, "removeMetadata") = << "0" >>

-----------------------------------------------------------------------------
(* C10: in every success entry json.result has exactly the fields size,      *)
(* width, height, mimeType, fileExt, each copied from the upstream           *)
(* response's result, and so no url; json.original is the response's         *)
(* original.                                                                 *)
ResultWithoutUrl ==
    \A k \in 1..Len(returnData) :
        IsSuccessEntry(returnData[k]) =>
            LET json == returnData[k].json
                resp == host[k].response
            IN  /\ DOMAIN json = {"original", "result"}
                /\ DOMAIN json.result = {"size", "width", "height", "mimeType", "fileExt"}
                /\ "url" \notin DOMAIN json.result
                /\ \A f \in DOMAIN json.result : json.result[f] = resp.result[f]
                /\ json.original = resp.original

\* two success entries made from different upstream responses
ResultWithoutUrlWitness ==
    /\ Len(returnData) >= 2
    /\ IsSuccessEntry(returnData[1])
    /\ IsSuccessEntry(returnData[2])
    /\ host[1].response # host[2].response
    /\ returnData[1].json.result.width = 200
    /\ returnData[2].json.result.width = 1920

-----------------------------------------------------------------------------
(* The attachments of a run *)

\* the attachment execute reads for item k
InputAttachment(k) == items[k].binary[params[k].binaryPropertyName]

\* base is name without its last dot-extension: name is base, a dot and one or
\* more characters that are not dots; or name ends in no such extension and
\* base is name
IsBaseName(base, name) ==
    LET Cut(n) == /\ name[n] = "."
                  /\ n < Len(name)
                  /\ \A m \in (n + 1)..Len(name) : name[m] # "."
    IN  \/ \E n \in 1..Len(name) : Cut(n) /\ base = SubSeq(name, 1, n - 1)
        \/ (~\E n \in 1..Len(name) : Cut(n)) /\ base = name

Prefixes(name) == {SubSeq(name, 1, n) : n \in 0..Len(name)}

-----------------------------------------------------------------------------
(* C11: the output attachment is named <base>_upscaled.<result.fileExt>,     *)
(* where base is the resolved input file name (image.png when the attachment *)
(* has none) without its last dot-extension; the extension is the upstream   *)
(* response's, not the input's; the MIME type is the response's              *)
(* result.mimeType.                                                          *)
OutputNamedAfterInput ==
    \A k \in 1..Len(returnData) :
        IsSuccessEntry(returnData[k]) =>
            LET given == InputAttachment(k).fileName
                unnamed == given = << >> \/ given = << << >> >>
                name == IF unnamed THEN <<"i", "m", "a", "g", "e", ".", "p", "n", "g">>
                        ELSE given[1]
                resp == host[k].response
                suffix == <<"_", "u", "p", "s", "c", "a", "l", "e", "d", ".">>
            IN  \A key \in DOMAIN returnData[k].binary :
                    LET out == returnData[k].binary[key] IN
                    /\ \E base \in Prefixes(name) :
                          /\ IsBaseName(base, name)
                          /\ out.fileName = base \o suffix \o resp.result.fileExt
                    /\ unnamed =>
                          out.fileName = <<"i", "m", "a", "g", "e">> \o suffix
                                             \o resp.result.fileExt
                    /\ out.mimeType = resp.result.mimeType

\* my.photo.jpg went in and my.photo_upscaled.webp came out
OutputNamedWitness ==
    /\ Len(returnData) = 1
    /\ IsSuccessEntry(returnData[1])
    /\ InputAttachment(1).fileName = << MyPhotoJpg >>
    /\ \E key \in DOMAIN returnData[1].binary :
          /\ returnData[1].binary[key].fileName =
                 <<"m", "y", ".", "p", "h", "o", "t", "o", "_", "u", "p", "s", "c", "a",
                   "l", "e", "d", ".", "w", "e", "b", "p">>
          /\ returnData[1].binary[key].mimeType = "image/webp"

-----------------------------------------------------------------------------
(* C12: a success entry carries exactly one binary attachment, stored under  *)
(* the outputBinaryPropertyName option when that option is set and under     *)
(* data when it is not; with the option set to another key, data is absent.  *)
(* The code reads the option with ||, so an empty string counts as not set.  *)
OneAttachmentUnderConfiguredKey ==
    \A k \in 1..Len(returnData) :
        IsSuccessEntry(returnData[k]) =>
            LET opt == params[k].options.outputBinaryPropertyName
                isSet == opt # << >> /\ opt # << "" >>
                keys == DOMAIN returnData[k].binary
            IN  /\ Cardinality(keys) = 1
                /\ isSet => opt[1] \in keys
                /\ (isSet /\ opt[1] # "data") => "data" \notin keys
                /\ ~isSet => keys = {"data"}
                /\ \A key \in keys :
                      returnData[k].binary[key].data = DownloadedImage(host[k].response)

\* the option named the key upscaled, and the entry has that key alone
OneAttachmentWitness ==
    /\ Len(returnData) = 1
    /\ IsSuccessEntry(returnData[1])
    /\ params[1].options.outputBinaryPropertyName = << "upscaled" >>
    /\ DOMAIN returnData[1].binary = {"upscaled"}

-----------------------------------------------------------------------------
(* C13: the image part of an upload form carries the attachment's own file   *)
(* name when it has one and image.png when it has none, and the attachment's *)
(* own MIME type when it has one and image/png when it has none; either      *)
(* fallback applies whether or not the other does.  The code reads both with *)
(* ||, so an empty string counts as none.                                    *)
ImagePartTagged ==
    \A q \in 1..Len(calls) :
        IsUpload(calls[q]) =>
            LET att == InputAttachment(calls[q].item + 1)
                named == att.fileName # << >> /\ att.fileName # << << >> >>
                typed == att.mimeType # << >> /\ att.mimeType # << "" >>
                IsImage(part) == part.name = "image"
                images == SelectSeq(calls[q].request.body, IsImage)
            IN  /\ Len(images) = 1
                /\ calls[q].request.body[1] = images[1]
                /\ images[1].value = att.data
                /\ images[1].filename =
                       IF named THEN att.fileName[1]
                       ELSE <<"i", "m", "a", "g", "e", ".", "p", "n", "g">>
                /\ images[1].contentType = IF typed THEN att.mimeType[1] ELSE "image/png"

\* an attachment with a MIME type and no file name: only the name falls back
ImagePartWitness ==
    /\ Len(calls) >= 1
    /\ IsUpload(calls[1])
    /\ InputAttachment(1).fileName = << >>
    /\ InputAttachment(1).mimeType = << "image/jpeg" >>
    /\ calls[1].request.body[1].filename = <<"i", "m", "a", "g", "e", ".", "p", "n", "g">>
    /\ calls[1].request.body[1].contentType = "image/jpeg"

-----------------------------------------------------------------------------
(* C14: the API key goes to the upscale endpoint only.  A request carries an *)
(* Authorization header exactly when it is the POST to                       *)
(* https://upscaleimg.app/api/v1/upscale, and the header is Bearer <apiKey>. *)
(* A GET consists of method, the url of its item's upload response and the   *)
(* encoding, and nothing else.  The downloads of a finished run are those of *)
(* the items that were processed and got past their upload, which does not   *)
(* depend on the key: runs that differ in the key alone issue the same       *)
(* downloads.                                                                *)
Processed(k) == continueOnFail \/ \A j \in 1..(k - 1) : ~Fails(j)

Downloads(k) == Processed(k) /\ FailingStep(k) \in {"none", "download", "package"}

\* the download requests of a finished run, from everything but the credentials
ExpectedDownloads ==
    LET order == SelectSeq([k \in 1..Len(items) |-> k], Downloads)
    IN  [q \in 1..Len(order) |->
            [method |-> "GET", url |-> host[order[q]].response.result.url,
             encoding |-> "arraybuffer"]]

IsDownload(c) == c.request.method = "GET"

KeyOnlyToUpscaleEndpoint ==
    /\ \A q \in 1..Len(calls) :
          LET req == calls[q].request IN
          /\ "headers" \in DOMAIN req <=>
                 (req.method = "POST" /\ req.url = "https://upscaleimg.app/api/v1/upscale")
          /\ "headers" \in DOMAIN req =>
                 /\ DOMAIN req.headers = {"Authorization"}
                 /\ req.headers.Authorization =
                        IF credentials.apiKey = "test-api-key-123"
                        THEN "Bearer test-api-key-123" ELSE "Bearer other-api-key-456"
          /\ req.method = "GET" =>
                 /\ DOMAIN req = {"method", "url", "encoding"}
                 /\ req.url = host[calls[q].item + 1].response.result.url
    /\ pc \in {"returned", "aborted"} =>
          LET gets == SelectSeq(calls, IsDownload)
          IN  [q \in 1..Len(gets) |-> gets[q].request] = ExpectedDownloads

\* a finished run under the second key with two uploads and two downloads to
\* different hosts
KeyOnlyWitness ==
    /\ pc = "returned"
    /\ credentials.apiKey = "other-api-key-456"
    /\ Len(calls) = 4
    /\ calls[1].request.headers.Authorization = "Bearer other-api-key-456"
    /\ calls[2].request.url = "https://s3.example.com/upscaled.webp?signed=1"
    /\ calls[4].request.url = "https://cdn.example.org/b.jpg?signed=2"

====
